---- MODULE Spec2Model ----
(***************************************************************************)
(* State-machine model of securedrop-export's disk pipeline.               *)
(*                                                                         *)
(* Two entry points exist in the sources and both are modelled:            *)
(*   - the action classes of usb/actions.py (USBTestAction,                *)
(*     USBDiskTestAction, USBExportAction), whose run() methods call the   *)
(*     USBActionMixin methods, safe_check_call (utils.py) and              *)
(*     exit_gracefully (export.py);                                        *)
(*   - main.__main__ (main.py), which drives an SDExport object            *)
(*     (export.py): unlock_luks_volume, mount_volume, copy_submission.     *)
(*                                                                         *)
(* Every external command is a step whose outcome (exit status, parsed     *)
(* output) is chosen nondeterministically among the outcomes the state of  *)
(* the machine allows.  A Python exception that nothing catches ends the   *)
(* process with exit code 1 and a traceback on the error stream.           *)
(*                                                                         *)
(* Spec is the program as its entry points run it.  SpecUnlockTwice adds   *)
(* a second call of USBActionMixin.unlock_luks_volume on the same object.  *)
(***************************************************************************)
EXTENDS Integers, Sequences, FiniteSets, TLC

\* ---------------------------------------------------------------- bounds
MaxDisks == 2        \* block devices of type "disk" that lsblk may list
MaxParts == 2        \* "part" lines that lsblk may print for the device
MaxUnlocks == 2      \* calls of unlock_luks_volume on the device in one run
MaxTick == 3         \* instants at which an export attempt may start
MaxLpstat == 1       \* seconds one call of lpstat may take

\* ------------------------------------------------------------- constants
MOUNTPOINT == "/media/usb"
ENCRYPTED_DEVICE == "encrypted_volume"
DEVICE == "/dev/sda1"

\* names of the disks lsblk lists, in listing order
DiskName == <<"sda", "sdb", "sdc", "sdd">>
\* "/dev/{}".format(device)
DevPath == [n \in {"sda", "sdb", "sdc", "sdd"} |->
              CASE n = "sda" -> "/dev/sda" [] n = "sdb" -> "/dev/sdb"
                [] n = "sdc" -> "/dev/sdc" [] n = "sdd" -> "/dev/sdd"]
\* self.device + '1'
FirstPartition == [d \in {"/dev/sda", "/dev/sdb", "/dev/sdc", "/dev/sdd",
                          "/dev/sda1", "/dev/sdb1", "/dev/sdc1", "/dev/sdd1"} |->
              CASE d = "/dev/sda" -> "/dev/sda1" [] d = "/dev/sdb" -> "/dev/sdb1"
                [] d = "/dev/sdc" -> "/dev/sdc1" [] d = "/dev/sdd" -> "/dev/sdd1"
                [] d = "/dev/sda1" -> "/dev/sda11" [] d = "/dev/sdb1" -> "/dev/sdb11"
                [] d = "/dev/sdc1" -> "/dev/sdc11" [] d = "/dev/sdd1" -> "/dev/sdd11"]
\* 'luks-' + items[1]
LuksName == [u \in {"u1"} |-> "luks-u1"]

\* the members of the ExportStatus enumeration
ExportStatus ==
    {"ERROR_FILE_NOT_FOUND", "ERROR_EXTRACTION", "ERROR_METADATA_PARSING",
     "ERROR_ARCHIVE_METADATA", "ERROR_USB_CONFIGURATION", "ERROR_GENERIC",
     "USB_CONNECTED", "USB_NOT_CONNECTED", "ERROR_USB_CHECK",
     "USB_ENCRYPTED", "USB_ENCRYPTED_UNLOCKED", "USB_ENCRYPTION_NOT_SUPPORTED",
     "USB_DISK_ERROR",
     "ERROR_MULTIPLE_PRINTERS_FOUND", "ERROR_PRINTER_NOT_FOUND",
     "ERROR_PRINTER_NOT_SUPPORTED", "ERROR_PRINTER_DRIVER_UNAVAILABLE",
     "ERROR_PRINTER_INSTALL",
     "USB_BAD_PASSPHRASE", "ERROR_USB_MOUNT", "ERROR_USB_WRITE",
     "ERROR_PRINT"}

\* A Python value handed to exit_gracefully: either a str or an Enum member.
Str(s) == [kind |-> "str", name |-> s]
Member(s) == [kind |-> "enum", name |-> s]
\* ExportStatus.X.value
Value(m) == [kind |-> "str", name |-> m.name]

SUPPORTED_EXPORT_METHODS == {"usb-test", "disk", "disk-test", "printer", "printer-test"}

\* safe_check_call is a module function whose first parameter is self; the
\* call sites of usb/actions.py pass command= and error_message= only
NoSelf == "missing"

\* subprocess.CalledProcessError of `cat .../removable`
CatFailed == -1
\* what an uncaught exception leaves on the error stream
Traceback == "Traceback (most recent call last)"
\* what a command writes to the standard error it inherits from the process
CommandOutput == "<output of the command>"

VARIABLES
    entry,            \* which entry point runs: an action class, or "main"
    export_method,    \* archive_metadata.export_method
    pc,               \* position of the process
    device,           \* self.device
    encrypted_device, \* self.encrypted_device
    mapper,           \* names present under /dev/mapper/
    mounted,          \* a filesystem is mounted on MOUNTPOINT
    mountpointExists, \* os.path.exists(MOUNTPOINT)
    tmpdirExists,     \* the temporary working directory exists
    target,           \* target directory on the device: "absent", "dir", "data"
    stderr,           \* lines written to sys.stderr, oldest first
    exitCode,         \* -1 while running, then the process's exit code
    pending,          \* exception in flight while a finally block runs
    cmds,             \* external commands issued so far, oldest first
    goodPass,         \* the passphrase of the archive opens the container
    reportedAt,       \* commands issued before the first status line, -1: none yet
    passed,           \* the msg arguments of the calls of exit_gracefully
    obs               \* what the commands of this run reported (history)

vars == <<entry, export_method, pc, device, encrypted_device, mapper, mounted,
          mountpointExists, tmpdirExists, target, stderr, exitCode, pending,
          cmds, goodPass, reportedAt, passed, obs>>

\* -------------------------------------------------------------- helpers

\* lines of the error stream that are neither a traceback nor the output of
\* a command
StatusLines == SelectSeq(stderr, LAMBDA l : l # Traceback /\ l # CommandOutput)

Issued(c) == \E i \in 1..Len(cmds) : cmds[i] = c

\* position of the first issue of command c (0 when never issued)
FirstIssue(c) == IF Issued(c) THEN CHOOSE i \in 1..Len(cmds) :
                      cmds[i] = c /\ \A j \in 1..(i-1) : cmds[j] # c
                 ELSE 0

\* SDExport.exit_gracefully(msg, e): the lines it writes, whether it removes
\* the temporary directory, and the exception that leaves the call.
\*   e = "False"  the default, or any falsy value (None, b"")
\*   e = "bytes"  a truthy value without an .output attribute
\*   e = "CalledProcessError"  an exception whose .output is None
exit_gracefully(msg, e) ==
    IF msg.kind # "str"
    THEN [out |-> <<>>, rm |-> FALSE, exc |-> "TypeError", msg |-> msg]
    ELSE IF e = "False"
    THEN [out |-> <<msg.name>>, rm |-> FALSE, exc |-> "SystemExit", msg |-> msg]
    ELSE IF e = "bytes"
    THEN [out |-> <<msg.name, "<unknown exception>">>, rm |-> TRUE,
          exc |-> "SystemExit", msg |-> msg]
    ELSE [out |-> <<msg.name>>, rm |-> TRUE, exc |-> "TypeError", msg |-> msg]

\* utils.safe_check_call(self, command, error_message), called with the
\* arguments bound: "missing" when the call site passes no self.
\* ran: the command was executed; exc: the exception leaving the call.
safe_check_call(self, ok, error_message) ==
    IF self = "missing"
    THEN [ran |-> FALSE, out |-> <<>>, rm |-> FALSE, exc |-> "TypeError"]
    ELSE IF ok
    THEN [ran |-> TRUE, out |-> <<>>, rm |-> FALSE, exc |-> "none"]
    ELSE LET r == exit_gracefully(error_message, "False")
         IN  [ran |-> TRUE, out |-> r.out, rm |-> r.rm, exc |-> r.exc,
              msg |-> r.msg]

\* the msg argument of the exit_gracefully call that produced r, if r comes
\* from one
Handed(r) == IF "msg" \in DOMAIN r THEN <<r.msg>> ELSE <<>>

\* An exception (with the lines written before it) reaches the interpreter:
\* SystemExit(0) ends the process with code 0, anything else with code 1 and
\* a traceback.
\* diag: what the command that failed wrote to the error stream itself.
LeaveAfter(diag, r) ==
    /\ stderr' = stderr \o diag \o r.out \o
                   (IF r.exc = "SystemExit" THEN <<>> ELSE <<Traceback>>)
    /\ reportedAt' = IF reportedAt = -1 /\ r.out # <<>>
                     THEN Len(cmds') ELSE reportedAt
    /\ passed' = passed \o Handed(r)
    /\ exitCode' = IF r.exc = "SystemExit" THEN 0 ELSE 1
    /\ tmpdirExists' = (tmpdirExists /\ ~r.rm)
    /\ pc' = "exited"

Leave(r) == LeaveAfter(<<>>, r)

\* subprocess.check_call(command) and check_output(command) without
\* stderr=PIPE leave the command's standard error on the process's own: a
\* command that fails may print its diagnostics there, or print nothing
Diagnostics(ok) == IF ok THEN {<<>>} ELSE {<<>>, <<CommandOutput>>}

\* check_call raised CalledProcessError and nothing catches it
CheckCallFailed(diag) ==
    LeaveAfter(diag, [out |-> <<>>, rm |-> FALSE, exc |-> "CalledProcessError"])

\* obs.first is the position in cmds of the first command that failed (0
\* while none has): its new value when the command just issued failed or not
FirstFailure(bad) == IF obs.first = 0 /\ bad THEN Len(cmds') ELSE obs.first

\* outcomes a command can have: it can always fail, and can succeed only
\* when the machine is in a state where the command can work
Outcomes(possible) == IF possible THEN {TRUE, FALSE} ELSE {FALSE}

\* ---------------------------------------------------------------- Init

Entries == {"USBTestAction", "USBDiskTestAction", "USBExportAction", "main"}

\* the instants of the wall clock, TicksPerSecond of them in each second
TicksPerSecond == 2
Times == 0..MaxTick

\* "sd-export-{}".format(datetime.datetime.now().strftime("%Y%m%d-%H%M%S")):
\* the name holds the second in which the attempt was constructed
target_dirname(t) == [prefix |-> "sd-export-", second |-> t \div TicksPerSecond]

\* what an earlier attempt, started at instant earlier (-1: there was none),
\* can have left on the device under the target path of the attempt started
\* at instant now
LeftBy(earlier, now) ==
    IF earlier # -1 /\ target_dirname(earlier) = target_dirname(now)
    THEN {"absent", "dir", "data"}
    ELSE {"absent"}

\* the state after construction of an attempt started at instant now
InitAt(earlier, now) ==
    /\ entry \in Entries
    /\ export_method \in
         CASE entry = "USBTestAction" -> {"usb-test"}
           [] entry = "USBDiskTestAction" -> {"disk-test"}
           [] entry = "USBExportAction" -> {"disk"}
           [] entry = "main" -> SUPPORTED_EXPORT_METHODS \cup {"unsupported"}
    /\ pc = IF entry = "main" THEN "main" ELSE "check_usb_connected"
    /\ device = IF entry = "main" THEN DEVICE ELSE "None"
    /\ encrypted_device = ENCRYPTED_DEVICE
    /\ mapper \in {{}, {ENCRYPTED_DEVICE}, {"luks-u1"}}
    /\ mounted = FALSE
    /\ mountpointExists \in BOOLEAN
    /\ tmpdirExists = TRUE
    /\ target \in LeftBy(earlier, now)
    /\ stderr = <<>>
    /\ exitCode = -1
    /\ pending = "none"
    /\ cmds = <<>>
    /\ goodPass \in BOOLEAN
    /\ reportedAt = -1
    /\ passed = <<>>
    /\ obs = [usb |-> -1, listed |-> TRUE, parts |-> -1, probe |-> "none",
              unlock |-> "none", failed |-> FALSE, opened |-> FALSE,
              first |-> 0, listing |-> <<>>, found |-> <<>>,
              earlier |-> earlier, now |-> now, clock |-> 0, idle |-> FALSE]

\* a first attempt on the device
Init == InitAt(-1, 0)

\* ------------------------------------------- usb/actions.py: USBActionMixin

Removable == {CatFailed, 0, 1}
Listings == UNION {[1..k -> Removable] : k \in 0..MaxDisks}

\* is_removable without the except clause's assignment of False
is_removable_unread(a) == a # 0

\* int(removable.decode('utf8').strip()) used as a truth value; False when
\* cat failed
is_removable(a) == IF a = CatFailed THEN FALSE ELSE a # 0

\* USBActionMixin._get_connected_usbs: listing[i] is what reading the
\* removable attribute of the i-th listed disk gives
get_connected_usbs(listing) ==
    LET attached == [i \in 1..Len(listing) |->
                        [name |-> DiskName[i], removable |-> listing[i]]]
        usb == SelectSeq(attached, LAMBDA d : is_removable(d.removable))
    IN  [i \in 1..Len(usb) |-> DevPath[usb[i].name]]

\* USBActionMixin.check_usb_connected(exit), exit=True for USBTestAction.
\* A failing lsblk leaves nothing to read on the pipe: Popen raises no
\* CalledProcessError.
check_usb_connected ==
    /\ pc = "check_usb_connected"
    /\ \E listing \in Listings, lsblkOk \in BOOLEAN :
         LET usb_devices == get_connected_usbs(IF lsblkOk THEN listing ELSE <<>>)
             exit == (entry = "USBTestAction")
         IN  /\ cmds' = Append(cmds, "lsblk")
             /\ obs' = [obs EXCEPT !.usb = Len(usb_devices), !.listed = lsblkOk,
                                   !.listing = IF lsblkOk THEN listing ELSE <<>>,
                                   !.found = usb_devices,
                                   !.failed = @ \/ ~lsblkOk,
                                   !.first = FirstFailure(~lsblkOk)]
             /\ IF Len(usb_devices) = 0
                THEN /\ Leave(exit_gracefully(Value(Member("USB_NOT_CONNECTED")), "False"))
                     /\ UNCHANGED device
                ELSE IF Len(usb_devices) = 1
                THEN /\ device' = usb_devices[1]
                     /\ IF exit
                        THEN Leave(exit_gracefully(Value(Member("USB_CONNECTED")), "False"))
                        ELSE /\ pc' = "set_extracted_device_name"
                             /\ UNCHANGED <<stderr, exitCode, tmpdirExists, reportedAt, passed>>
                ELSE /\ Leave(exit_gracefully(Value(Member("ERROR_GENERIC")), "False"))
                     /\ UNCHANGED device
    /\ UNCHANGED <<entry, export_method, encrypted_device, mapper, mounted,
                   mountpointExists, target, pending, goodPass>>

\* set_extracted_device_name without the test of partition_count > 1: a
\* device with several partitions resolves to its first partition
set_extracted_device_name_anycount ==
    /\ pc = "set_extracted_device_name"
    /\ \E ok \in BOOLEAN, partition_count \in 0..MaxParts :
         /\ cmds' = Append(cmds, "lsblk_parts")
         /\ obs' = [obs EXCEPT !.parts = IF ok THEN partition_count ELSE -1,
                               !.failed = @ \/ ~ok,
                               !.first = FirstFailure(~ok)]
         /\ IF ~ok
            THEN /\ Leave(exit_gracefully(
                           Value(Member("USB_ENCRYPTION_NOT_SUPPORTED")), "False"))
                 /\ UNCHANGED device
            ELSE /\ device' = IF partition_count = 0 THEN device
                                                     ELSE FirstPartition[device]
                 /\ pc' = IF entry = "USBDiskTestAction" THEN "check_luks_volume"
                                                         ELSE "luksDump"
                 /\ UNCHANGED <<stderr, exitCode, tmpdirExists, reportedAt, passed>>
    /\ UNCHANGED <<entry, export_method, encrypted_device, mapper, mounted,
                   mountpointExists, target, pending, goodPass>>

\* USBActionMixin.set_extracted_device_name
set_extracted_device_name ==
    /\ pc = "set_extracted_device_name"
    /\ \E ok \in BOOLEAN, partition_count \in 0..MaxParts :
         /\ cmds' = Append(cmds, "lsblk_parts")
         /\ obs' = [obs EXCEPT !.parts = IF ok THEN partition_count ELSE -1,
                               !.failed = @ \/ ~ok,
                               !.first = FirstFailure(~ok)]
         /\ IF ~ok \/ partition_count > 1
            THEN /\ Leave(exit_gracefully(
                           Value(Member("USB_ENCRYPTION_NOT_SUPPORTED")), "False"))
                 /\ UNCHANGED device
            ELSE /\ device' = IF partition_count = 0 THEN device
                                                     ELSE FirstPartition[device]
                 /\ pc' = IF entry = "USBDiskTestAction" THEN "check_luks_volume"
                                                         ELSE "luksDump"
                 /\ UNCHANGED <<stderr, exitCode, tmpdirExists, reportedAt, passed>>
    /\ UNCHANGED <<entry, export_method, encrypted_device, mapper, mounted,
                   mountpointExists, target, pending, goodPass>>

\* USBActionMixin.check_luks_volume, after set_extracted_device_name
check_luks_volume ==
    /\ pc = "check_luks_volume"
    /\ \E ok \in BOOLEAN :
         LET r == safe_check_call(NoSelf, ok,
                                  Value(Member("USB_ENCRYPTION_NOT_SUPPORTED")))
         IN  /\ cmds' = IF r.ran THEN Append(cmds, "isLuks") ELSE cmds
             /\ obs' = IF r.ran
                       THEN [obs EXCEPT !.probe = IF ok THEN "ok" ELSE "fail",
                                        !.failed = @ \/ ~ok,
                                        !.first = FirstFailure(~ok)]
                       ELSE obs
             /\ IF r.exc = "none"
                THEN Leave(exit_gracefully(Value(Member("USB_ENCRYPTED")), "False"))
                ELSE Leave(r)
    /\ UNCHANGED <<entry, export_method, device, encrypted_device, mapper,
                   mounted, mountpointExists, target, pending, goodPass>>

\* USBActionMixin.unlock_luks_volume, cryptsetup luksDump and the UUID line
unlock_luks_volume_dump ==
    /\ pc = "luksDump"
    /\ \E ok \in BOOLEAN, uuid \in {"none", "u1"} :
       \E diag \in Diagnostics(ok) :
         /\ cmds' = Append(cmds, "luksDump")
         /\ obs' = [obs EXCEPT !.probe = IF ok THEN "ok" ELSE "fail",
                               !.failed = @ \/ ~ok,
                               !.first = FirstFailure(~ok)]
         /\ IF ~ok
            THEN /\ LeaveAfter(diag,
                       exit_gracefully(Member("USB_ENCRYPTION_NOT_SUPPORTED"),
                                       "False"))
                 /\ UNCHANGED encrypted_device
            ELSE /\ encrypted_device' = IF uuid = "none" THEN encrypted_device
                                                         ELSE LuksName[uuid]
                 /\ pc' = "luksOpen"
                 /\ UNCHANGED <<stderr, exitCode, tmpdirExists, reportedAt, passed>>
    /\ UNCHANGED <<entry, export_method, device, mapper, mounted,
                   mountpointExists, target, pending, goodPass>>

\* unlock_luks_volume_open without the test of p.returncode: a failed
\* luksOpen falls through to mount_volume
unlock_luks_volume_open_norc ==
    /\ pc = "luksOpen"
    /\ IF encrypted_device \in mapper
       THEN /\ obs' = [obs EXCEPT !.unlock = "skipped"]
            /\ UNCHANGED <<cmds, mapper>>
       ELSE \E ok \in Outcomes(goodPass /\ mapper = {}) :
            /\ cmds' = Append(cmds, "luksOpen")
            /\ obs' = [obs EXCEPT !.unlock = IF ok THEN "ok" ELSE "fail",
                                  !.failed = @ \/ ~ok,
                                  !.first = FirstFailure(~ok),
                                  !.opened = @ \/ ok]
            /\ mapper' = IF ok THEN mapper \cup {encrypted_device} ELSE mapper
    /\ pc' = "mount_volume"
    /\ UNCHANGED <<entry, export_method, device, encrypted_device, mounted,
                   mountpointExists, target, pending, goodPass, stderr,
                   exitCode, tmpdirExists, reportedAt, passed>>

\* USBActionMixin.unlock_luks_volume, cryptsetup luksOpen unless the mapped
\* name exists already
unlock_luks_volume_open ==
    /\ pc = "luksOpen"
    /\ IF encrypted_device \in mapper
       THEN /\ pc' = "mount_volume"
            /\ obs' = [obs EXCEPT !.unlock = "skipped"]
            /\ UNCHANGED <<cmds, mapper, stderr, exitCode, tmpdirExists, reportedAt, passed>>
       ELSE \E ok \in Outcomes(goodPass /\ mapper = {}) :
            /\ cmds' = Append(cmds, "luksOpen")
            /\ obs' = [obs EXCEPT !.unlock = IF ok THEN "ok" ELSE "fail",
                                  !.failed = @ \/ ~ok,
                                  !.first = FirstFailure(~ok),
                                  !.opened = @ \/ ok]
            /\ IF ok
               THEN /\ mapper' = mapper \cup {encrypted_device}
                    /\ pc' = "mount_volume"
                    /\ UNCHANGED <<stderr, exitCode, tmpdirExists, reportedAt, passed>>
               ELSE /\ Leave(exit_gracefully(Value(Member("USB_BAD_PASSPHRASE")),
                                             "False"))
                    /\ UNCHANGED mapper
    /\ UNCHANGED <<entry, export_method, device, encrypted_device, mounted,
                   mountpointExists, target, pending, goodPass>>

NotCalled == [ran |-> FALSE, out |-> <<>>, rm |-> FALSE, exc |-> "none"]
Ran(r, c) == IF r.ran THEN <<c>> ELSE <<>>

\* USBActionMixin.mount_volume: mkdir (when the mountpoint is absent), mount
\* and chown, each through safe_check_call
mount_volume ==
    /\ pc = "mount_volume"
    /\ \E ok1 \in BOOLEAN, ok2 \in Outcomes(encrypted_device \in mapper /\ ~mounted),
          ok3 \in BOOLEAN :
         LET r1 == IF mountpointExists THEN NotCalled
                   ELSE safe_check_call(NoSelf, ok1, Member("ERROR_USB_MOUNT"))
             r2 == safe_check_call(NoSelf, ok2, Value(Member("ERROR_USB_MOUNT")))
             r3 == safe_check_call(NoSelf, ok3, Value(Member("ERROR_USB_MOUNT")))
             c1 == Ran(r1, "mkdir")
             c2 == Ran(r2, "mount")
             c3 == Ran(r3, "chown")
         IN  IF r1.exc # "none"
             THEN /\ cmds' = cmds \o c1
                  /\ obs' = [obs EXCEPT !.failed = @ \/ r1.ran,
                                        !.first = FirstFailure(r1.ran)]
                  /\ Leave(r1)
                  /\ UNCHANGED <<mountpointExists, mounted>>
             ELSE IF r2.exc # "none"
             THEN /\ cmds' = cmds \o c1 \o c2
                  /\ obs' = [obs EXCEPT !.failed = @ \/ r2.ran,
                                        !.first = FirstFailure(r2.ran)]
                  /\ mountpointExists' = (mountpointExists \/ r1.ran)
                  /\ Leave(r2)
                  /\ UNCHANGED mounted
             ELSE IF r3.exc # "none"
             THEN /\ cmds' = cmds \o c1 \o c2 \o c3
                  /\ obs' = [obs EXCEPT !.failed = @ \/ r3.ran,
                                        !.first = FirstFailure(r3.ran)]
                  /\ mountpointExists' = (mountpointExists \/ r1.ran)
                  /\ mounted' = TRUE
                  /\ Leave(r3)
             ELSE /\ cmds' = cmds \o c1 \o c2 \o c3
                  /\ mountpointExists' = (mountpointExists \/ r1.ran)
                  /\ mounted' = TRUE
                  /\ pc' = "copy_mkdir"
                  /\ UNCHANGED <<obs, stderr, exitCode, tmpdirExists, reportedAt, passed>>
    /\ UNCHANGED <<entry, export_method, device, encrypted_device, mapper,
                   target, pending, goodPass>>

\* ---------------------------------------------- main.py and export.py: SDExport

\* SDExport.setup_printer(self, printer_uri, printer_ppd) as main calls it:
\* submission.setup_printer(), which binds neither parameter
NoArguments == <<>>
setup_printer(args) ==
    IF Len(args) # 2
    THEN [out |-> <<>>, rm |-> FALSE, exc |-> "TypeError"]
    ELSE [out |-> <<>>, rm |-> FALSE, exc |-> "none"]

\* __main__ returns when no branch of its if/elif chain matches the method
\* ("disk-check" and "printer-check" are no supported methods, "usb-test" and
\* "disk-test" have no branch): the process ends as after sys.exit(0), with
\* nothing written
Returned == [out |-> <<>>, rm |-> FALSE, exc |-> "SystemExit"]

\* main.__main__: extract_tarball, Metadata, is_valid and the dispatch on
\* export_method (encryption_method is "luks")
main ==
    /\ pc = "main"
    /\ UNCHANGED <<entry, export_method, device, encrypted_device, mapper,
                   mounted, mountpointExists, target, pending, cmds, goodPass>>
    /\ \E extracted \in BOOLEAN, parsed \in BOOLEAN :
         /\ obs' = [obs EXCEPT !.failed = ~extracted \/ ~parsed]
         /\ IF ~extracted
            THEN Leave(exit_gracefully(Str("ERROR_EXTRACTION"), "False"))
            ELSE IF ~parsed
            THEN Leave(exit_gracefully(Value(Member("ERROR_METADATA_PARSING")),
                                       "False"))
            ELSE IF export_method \notin SUPPORTED_EXPORT_METHODS
            THEN Leave(exit_gracefully(Value(Member("ERROR_ARCHIVE_METADATA")),
                                       "False"))
            ELSE IF export_method = "disk"
            THEN /\ pc' = "SDExport_unlock_luks_volume"
                 /\ UNCHANGED <<stderr, exitCode, tmpdirExists, reportedAt, passed>>
            ELSE IF export_method \in {"printer", "printer-test"}
            THEN Leave(setup_printer(NoArguments))
            ELSE Leave(Returned)

\* SDExport.unlock_luks_volume
\* unlock_luks_volume asking again after a passphrase that was refused
SDExport_unlock_luks_volume_retry ==
    /\ pc = "SDExport_unlock_luks_volume"
    /\ IF encrypted_device \in mapper
       THEN /\ pc' = "SDExport_mount_volume"
            /\ obs' = [obs EXCEPT !.unlock = "skipped"]
            /\ UNCHANGED <<cmds, mapper, stderr, exitCode, tmpdirExists, reportedAt, passed>>
       ELSE \E ok \in Outcomes(goodPass /\ mapper = {}) :
            /\ cmds' = Append(cmds, "luksOpen")
            /\ obs' = [obs EXCEPT !.unlock = IF ok THEN "ok" ELSE "fail",
                                  !.failed = @ \/ ~ok,
                                  !.first = FirstFailure(~ok),
                                  !.opened = @ \/ ok]
            /\ IF ok
               THEN /\ mapper' = mapper \cup {encrypted_device}
                    /\ pc' = "SDExport_mount_volume"
                    /\ UNCHANGED <<stderr, exitCode, tmpdirExists, reportedAt, passed>>
               ELSE IF Len(cmds') < MaxUnlocks
               THEN /\ pc' = "SDExport_unlock_luks_volume"
                    /\ UNCHANGED <<mapper, stderr, exitCode, tmpdirExists,
                                   reportedAt, passed>>
               ELSE /\ Leave(exit_gracefully(Str("USB_BAD_PASSPHRASE"), "False"))
                    /\ UNCHANGED mapper
    /\ UNCHANGED <<entry, export_method, device, encrypted_device, mounted,
                   mountpointExists, target, pending, goodPass>>

SDExport_unlock_luks_volume ==
    /\ pc = "SDExport_unlock_luks_volume"
    /\ IF encrypted_device \in mapper
       THEN /\ pc' = "SDExport_mount_volume"
            /\ obs' = [obs EXCEPT !.unlock = "skipped"]
            /\ UNCHANGED <<cmds, mapper, stderr, exitCode, tmpdirExists, reportedAt, passed>>
       ELSE \E ok \in Outcomes(goodPass /\ mapper = {}) :
            /\ cmds' = Append(cmds, "luksOpen")
            /\ obs' = [obs EXCEPT !.unlock = IF ok THEN "ok" ELSE "fail",
                                  !.failed = @ \/ ~ok,
                                  !.first = FirstFailure(~ok),
                                  !.opened = @ \/ ok]
            /\ IF ok
               THEN /\ mapper' = mapper \cup {encrypted_device}
                    /\ pc' = "SDExport_mount_volume"
                    /\ UNCHANGED <<stderr, exitCode, tmpdirExists, reportedAt, passed>>
               ELSE /\ Leave(exit_gracefully(Str("USB_BAD_PASSPHRASE"), "False"))
                    /\ UNCHANGED mapper
    /\ UNCHANGED <<entry, export_method, device, encrypted_device, mounted,
                   mountpointExists, target, pending, goodPass>>

\* SDExport.mount_volume: mkdir outside the try block
SDExport_mount_volume_mkdir ==
    /\ pc = "SDExport_mount_volume"
    /\ IF mountpointExists
       THEN /\ pc' = "SDExport_mount"
            /\ UNCHANGED <<cmds, obs, mountpointExists, stderr, exitCode,
                           tmpdirExists, reportedAt, passed>>
       ELSE \E ok \in BOOLEAN : \E diag \in Diagnostics(ok) :
            /\ cmds' = Append(cmds, "mkdir")
            /\ obs' = [obs EXCEPT !.failed = @ \/ ~ok,
                                  !.first = FirstFailure(~ok)]
            /\ IF ok
               THEN /\ mountpointExists' = TRUE
                    /\ pc' = "SDExport_mount"
                    /\ UNCHANGED <<stderr, exitCode, tmpdirExists, reportedAt, passed>>
               ELSE /\ CheckCallFailed(diag)
                    /\ UNCHANGED mountpointExists
    /\ UNCHANGED <<entry, export_method, device, encrypted_device, mapper,
                   mounted, target, pending, goodPass>>

\* SDExport.mount_volume: mount, inside the try block
\* mount_volume without the except clause around the mount command
SDExport_mount_volume_mount_nocheck ==
    /\ pc = "SDExport_mount"
    /\ \E ok \in Outcomes(encrypted_device \in mapper /\ ~mounted) :
       \E diag \in Diagnostics(ok) :
         /\ cmds' = Append(cmds, "mount")
         /\ stderr' = stderr \o diag
         /\ obs' = [obs EXCEPT !.failed = @ \/ ~ok,
                               !.first = FirstFailure(~ok)]
         /\ mounted' = (mounted \/ ok)
         /\ pc' = "SDExport_chown"
    /\ UNCHANGED <<entry, export_method, device, encrypted_device, mapper,
                   mountpointExists, tmpdirExists, target, exitCode,
                   pending, goodPass, reportedAt, passed>>

SDExport_mount_volume_mount ==
    /\ pc = "SDExport_mount"
    /\ \E ok \in Outcomes(encrypted_device \in mapper /\ ~mounted) :
       \E diag \in Diagnostics(ok) :
         /\ cmds' = Append(cmds, "mount")
         /\ stderr' = stderr \o diag
         /\ obs' = [obs EXCEPT !.failed = @ \/ ~ok,
                               !.first = FirstFailure(~ok)]
         /\ mounted' = (mounted \/ ok)
         /\ pc' = IF ok THEN "SDExport_chown" ELSE "SDExport_mount_except"
    /\ UNCHANGED <<entry, export_method, device, encrypted_device, mapper,
                   mountpointExists, tmpdirExists, target, exitCode,
                   pending, goodPass, reportedAt, passed>>

\* SDExport.mount_volume: chown, inside the try block
SDExport_mount_volume_chown ==
    /\ pc = "SDExport_chown"
    /\ \E ok \in BOOLEAN : \E diag \in Diagnostics(ok) :
         /\ cmds' = Append(cmds, "chown")
         /\ stderr' = stderr \o diag
         /\ obs' = [obs EXCEPT !.failed = @ \/ ~ok,
                               !.first = FirstFailure(~ok)]
         /\ pc' = IF ok THEN "copy_mkdir" ELSE "SDExport_mount_except"
    /\ UNCHANGED <<entry, export_method, device, encrypted_device, mapper,
                   mounted, mountpointExists, tmpdirExists, target,
                   exitCode, pending, goodPass, reportedAt, passed>>

\* SDExport.mount_volume: except CalledProcessError: luksClose, then
\* exit_gracefully
SDExport_mount_volume_except ==
    /\ pc = "SDExport_mount_except"
    /\ \E ok \in Outcomes(encrypted_device \in mapper /\ ~mounted) :
       \E diag \in Diagnostics(ok) :
         /\ cmds' = Append(cmds, "luksClose")
         /\ obs' = [obs EXCEPT !.failed = @ \/ ~ok,
                               !.first = FirstFailure(~ok)]
         /\ IF ok
            THEN /\ mapper' = mapper \ {encrypted_device}
                 /\ Leave(exit_gracefully(Str("ERROR_USB_MOUNT"), "False"))
            ELSE /\ CheckCallFailed(diag)
                 /\ UNCHANGED mapper
    /\ UNCHANGED <<entry, export_method, device, encrypted_device, mounted,
                   mountpointExists, target, pending, goodPass>>

\* ----------------------------------------------------------- copy_submission
\* SDExport.copy_submission (export.py) and USBActionMixin.copy_submission
\* (usb/actions.py) are the same try/except/finally; the mixin's version
\* takes the ERROR_USB_WRITE message from the enumeration and sends a
\* notification after the copy.  USBExportAction.run gets here only when
\* USBActionMixin.mount_volume returns, that is when safe_check_call returns.

ERROR_USB_WRITE == IF entry = "main" THEN Str("ERROR_USB_WRITE")
                                     ELSE Value(Member("ERROR_USB_WRITE"))

\* except (CalledProcessError, OSError): exit_gracefully(ERROR_USB_WRITE);
\* the exception it raises is in flight while the finally block runs
WriteFailed(diag) ==
    LET r == exit_gracefully(ERROR_USB_WRITE, "False")
    IN  /\ stderr' = stderr \o diag \o r.out
        /\ reportedAt' = IF reportedAt = -1 /\ r.out # <<>>
                         THEN Len(cmds') ELSE reportedAt
        /\ passed' = passed \o Handed(r)
        /\ tmpdirExists' = (tmpdirExists /\ ~r.rm)
        /\ pending' = r.exc
        /\ pc' = "finally_sync"

\* copy_submission: mkdir target_path
copy_submission_mkdir ==
    /\ pc = "copy_mkdir"
    /\ \E ok \in Outcomes(mountpointExists /\ target = "absent") :
       \E diag \in Diagnostics(ok) :
         /\ cmds' = Append(cmds, "mkdir_target")
         /\ obs' = [obs EXCEPT !.failed = @ \/ ~ok,
                               !.first = FirstFailure(~ok)]
         /\ IF ok
            THEN /\ target' = "dir"
                 /\ pc' = "copy_cp"
                 /\ UNCHANGED <<stderr, reportedAt, passed, tmpdirExists, pending>>
            ELSE /\ WriteFailed(diag)
                 /\ UNCHANGED target
    /\ UNCHANGED <<entry, export_method, device, encrypted_device, mapper,
                   mounted, mountpointExists, exitCode, goodPass>>

\* the notification of USBActionMixin.copy_submission: utils.popup_message
\* calls safe_check_call
popup_message(ok) ==
    IF entry = "main" THEN NotCalled
    ELSE safe_check_call(NoSelf, ok, Str("Error sending notification:"))

\* copy_submission: cp -r export_data target_path
copy_submission_cp ==
    /\ pc = "copy_cp"
    /\ \E ok \in Outcomes(target = "dir" /\ tmpdirExists), notified \in BOOLEAN :
       \E diag \in Diagnostics(ok) :
         LET r == popup_message(notified)
         IN  /\ cmds' = cmds \o <<"cp">> \o (IF ok THEN Ran(r, "notify-send") ELSE <<>>)
             /\ obs' = [obs EXCEPT !.failed = @ \/ ~ok \/ (ok /\ r.ran /\ ~notified),
                                   !.first = FirstFailure(~ok \/ (ok /\ r.ran /\ ~notified))]
             /\ IF ok
                THEN /\ target' = "data"
                     /\ stderr' = stderr \o r.out
                     /\ reportedAt' = IF reportedAt = -1 /\ r.out # <<>>
                                      THEN Len(cmds') ELSE reportedAt
                     /\ passed' = passed \o Handed(r)
                     /\ tmpdirExists' = (tmpdirExists /\ ~r.rm)
                     /\ pending' = r.exc
                     /\ pc' = "finally_sync"
                ELSE /\ WriteFailed(diag)
                     /\ UNCHANGED target
    /\ UNCHANGED <<entry, export_method, device, encrypted_device, mapper,
                   mounted, mountpointExists, exitCode, goodPass>>

\* copy_submission_sync with the container locked right after the flush,
\* before the unmount
copy_submission_sync_lockfirst ==
    /\ pc = "finally_sync"
    /\ \E ok \in BOOLEAN : \E diag \in Diagnostics(ok) :
         /\ cmds' = Append(cmds, "sync")
         /\ obs' = [obs EXCEPT !.failed = @ \/ ~ok,
                               !.first = FirstFailure(~ok)]
         /\ IF ok
            THEN /\ pc' = "finally_luksClose"
                 /\ UNCHANGED <<stderr, exitCode, tmpdirExists, reportedAt, passed>>
            ELSE CheckCallFailed(diag)
    /\ UNCHANGED <<entry, export_method, device, encrypted_device, mapper,
                   mounted, mountpointExists, target, pending, goodPass>>

\* finally: sync; a failing check_call raises out of the finally block
copy_submission_sync ==
    /\ pc = "finally_sync"
    /\ \E ok \in BOOLEAN : \E diag \in Diagnostics(ok) :
         /\ cmds' = Append(cmds, "sync")
         /\ obs' = [obs EXCEPT !.failed = @ \/ ~ok,
                               !.first = FirstFailure(~ok)]
         /\ IF ok
            THEN /\ pc' = "finally_umount"
                 /\ UNCHANGED <<stderr, exitCode, tmpdirExists, reportedAt, passed>>
            ELSE CheckCallFailed(diag)
    /\ UNCHANGED <<entry, export_method, device, encrypted_device, mapper,
                   mounted, mountpointExists, target, pending, goodPass>>

\* finally: sudo umount self.mountpoint
copy_submission_umount ==
    /\ pc = "finally_umount"
    /\ \E ok \in Outcomes(mounted) : \E diag \in Diagnostics(ok) :
         /\ cmds' = Append(cmds, "umount")
         /\ obs' = [obs EXCEPT !.failed = @ \/ ~ok,
                               !.first = FirstFailure(~ok)]
         /\ IF ok
            THEN /\ mounted' = FALSE
                 /\ pc' = "finally_luksClose"
                 /\ UNCHANGED <<stderr, exitCode, tmpdirExists, reportedAt, passed>>
            ELSE /\ CheckCallFailed(diag)
                 /\ UNCHANGED mounted
    /\ UNCHANGED <<entry, export_method, device, encrypted_device, mapper,
                   mountpointExists, target, pending, goodPass>>

\* finally: sudo cryptsetup luksClose self.encrypted_device
copy_submission_luksClose ==
    /\ pc = "finally_luksClose"
    /\ \E ok \in Outcomes(encrypted_device \in mapper /\ ~mounted) :
       \E diag \in Diagnostics(ok) :
         /\ cmds' = Append(cmds, "luksClose")
         /\ obs' = [obs EXCEPT !.failed = @ \/ ~ok,
                               !.first = FirstFailure(~ok)]
         /\ IF ok
            THEN /\ mapper' = mapper \ {encrypted_device}
                 /\ pc' = "finally_rm"
                 /\ UNCHANGED <<stderr, exitCode, tmpdirExists, reportedAt, passed>>
            ELSE /\ CheckCallFailed(diag)
                 /\ UNCHANGED mapper
    /\ UNCHANGED <<entry, export_method, device, encrypted_device, mounted,
                   mountpointExists, target, pending, goodPass>>

\* finally: rm -rf tmpdir, then sys.exit(0), which replaces any exception in
\* flight
copy_submission_rm ==
    /\ pc = "finally_rm"
    /\ \E ok \in BOOLEAN : \E diag \in Diagnostics(ok) :
         /\ cmds' = Append(cmds, "rm")
         /\ obs' = [obs EXCEPT !.failed = @ \/ ~ok,
                               !.first = FirstFailure(~ok)]
         /\ IF ok
            THEN Leave([out |-> <<>>, rm |-> TRUE, exc |-> "SystemExit"])
            ELSE CheckCallFailed(diag)
    /\ UNCHANGED <<entry, export_method, device, encrypted_device, mapper,
                   mounted, mountpointExists, target, pending, goodPass>>

\* ------------------------------------------------------------ specification

Next ==
    \/ check_usb_connected
    \/ set_extracted_device_name
    \/ check_luks_volume
    \/ unlock_luks_volume_dump
    \/ unlock_luks_volume_open
    \/ mount_volume
    \/ main
    \/ SDExport_unlock_luks_volume
    \/ SDExport_mount_volume_mkdir
    \/ SDExport_mount_volume_mount
    \/ SDExport_mount_volume_chown
    \/ SDExport_mount_volume_except
    \/ copy_submission_mkdir
    \/ copy_submission_cp
    \/ copy_submission_sync
    \/ copy_submission_umount
    \/ copy_submission_luksClose
    \/ copy_submission_rm

Spec == Init /\ [][Next]_vars

TypeOK ==
    /\ entry \in Entries
    /\ exitCode \in {-1, 0, 1}
    /\ (pc = "exited") = (exitCode # -1)
    /\ pending \in {"none", "SystemExit", "TypeError"}
    /\ target \in {"absent", "dir", "data"}

\* ------------------------------------------------------------------ claims

Exited == pc = "exited"

\* the invocation is a disk export (USBExportAction.run, or main's disk branch)
IsExport == export_method = "disk"

\* the commands of copy_submission's write step
WriteIssued == Issued("mkdir_target") \/ Issued("cp")

\* the teardown commands
Teardown == {"umount", "luksClose", "rm"}

\* C1: whatever the outcomes of the external commands of a disk export, the
\* process ends with exit code 0.
C1_AlwaysExitsZero ==
    (Exited /\ IsExport) => exitCode = 0

\* C2: every invocation that exits with code 0 has written exactly one
\* Status token to the error stream, on the successful export path as on
\* each failure path.
C2_ExactlyOneStatus ==
    (Exited /\ exitCode = 0) => Len(StatusLines) = 1

\* C3: when an export attempt has ended, the device is not mounted and no
\* LUKS mapping opened by the attempt is still open.
C3_NothingLeftOpen ==
    (Exited /\ IsExport) =>
        /\ ~mounted
        /\ ~(obs.opened /\ encrypted_device \in mapper)

\* C4: when an invocation that got as far as unlocking the device has ended,
\* with any Status, the temporary working directory is deleted.
C4_TmpdirDeleted ==
    (Exited /\ Issued("luksOpen")) => ~tmpdirExists

\* C5: on every exit path of an export that got as far as unlocking the
\* device, each teardown command (umount, luksClose, rm) has been issued, and
\* was issued before the Status was written.
C5_TeardownBeforeStatus ==
    (Exited /\ IsExport /\ Issued("luksOpen")) =>
        \A c \in Teardown :
            /\ Issued(c)
            /\ reportedAt # -1 => FirstIssue(c) <= reportedAt

\* an export on one valid LUKS device, with the right passphrase, in which
\* no command failed
CleanRun ==
    /\ IsExport
    /\ goodPass
    /\ ~obs.failed
    /\ obs.unlock = "ok"
    /\ entry = "USBExportAction" =>
          obs.usb = 1 /\ obs.parts \in {0, 1} /\ obs.probe = "ok"

\* C6: an export with the right passphrase on one valid LUKS device, every
\* command succeeding, reports SUCCESS_EXPORT, has the payload in the target
\* directory, and leaves the device unmounted and the mapping closed.
C6_SuccessfulExport ==
    (Exited /\ CleanRun) =>
        /\ StatusLines = <<"SUCCESS_EXPORT">>
        /\ target = "data"
        /\ ~mounted
        /\ encrypted_device \notin mapper

\* C7: once luksOpen has returned non-zero, the export has ended with the
\* single Status USB_BAD_PASSPHRASE and exit code 0, and no mount command
\* and no write command was issued.
C7_BadPassphrase ==
    obs.unlock = "fail" =>
        /\ Exited
        /\ exitCode = 0
        /\ stderr = <<"USB_BAD_PASSPHRASE">>
        /\ ~Issued("mount")
        /\ ~WriteIssued

C7_Witness ==
    /\ obs.unlock = "fail"
    /\ ~goodPass
    /\ Exited
    /\ cmds[Len(cmds)] = "luksOpen"

\* C8: an export whose LUKS probe (cryptsetup luksDump) fails reports
\* USB_ENCRYPTION_NOT_SUPPORTED and issues no mount and no write command.
C8_ProbeFailed ==
    (IsExport /\ obs.probe = "fail") =>
        /\ Exited
        /\ StatusLines = <<"USB_ENCRYPTION_NOT_SUPPORTED">>
        /\ ~Issued("mount")
        /\ ~WriteIssued

\* C9: the usb preflight reports USB_CONNECTED exactly when discovery found
\* one removable device, and ERROR_GENERIC for zero devices, for two or more
\* and for a failed listing.
C9_CheckConnectedDevices ==
    (Exited /\ entry = "USBTestAction") =>
        StatusLines = IF obs.usb = 1 THEN <<"USB_CONNECTED">>
                                     ELSE <<"ERROR_GENERIC">>

\* C10: the disk preflight, on the one device found, reports USB_ENCRYPTED
\* when partition resolution and the LUKS probe succeed, and
\* USB_ENCRYPTION_NOT_SUPPORTED for every detection failure.
C10_CheckDiskFormat ==
    (Exited /\ entry = "USBDiskTestAction" /\ obs.usb = 1) =>
        StatusLines = IF obs.parts \in {0, 1} /\ obs.probe = "ok"
                      THEN <<"USB_ENCRYPTED">>
                      ELSE <<"USB_ENCRYPTION_NOT_SUPPORTED">>

\* the first command of the run that failed ("none" while none has)
FirstFailed == IF obs.first = 0 THEN "none" ELSE cmds[obs.first]

\* the Status with which the pipeline answers the failure of command c: the
\* argument of the exit_gracefully call that handles it ("none" for a
\* command whose failure has no Status of its own)
StepStatus(c) ==
    CASE c \in {"lsblk_parts", "isLuks", "luksDump"} -> "USB_ENCRYPTION_NOT_SUPPORTED"
      [] c = "luksOpen" -> "USB_BAD_PASSPHRASE"
      [] c \in {"mkdir", "mount", "chown"} -> "ERROR_USB_MOUNT"
      [] c \in {"mkdir_target", "cp"} -> "ERROR_USB_WRITE"
      [] OTHER -> "none"

\* C11: an export reports SUCCESS_EXPORT only when no command of any step
\* failed, and when a command failed the Status reported is the Status of
\* the step of the first command that failed.
C11_FirstFailureReported ==
    (Exited /\ IsExport) =>
        /\ StatusLines = <<"SUCCESS_EXPORT">> => ~obs.failed
        /\ StepStatus(FirstFailed) # "none" =>
               StatusLines = <<StepStatus(FirstFailed)>>

\* C12: when the write step is the first to fail, the Status reported is
\* ERROR_USB_WRITE and the teardown of the finally block is entered; and a
\* cleanup command that fails after a mount or write failure leaves the
\* Status of that failure as the one reported.
C12_TeardownKeepsStatus ==
    Exited =>
        /\ FirstFailed \in {"mkdir_target", "cp"} =>
               StatusLines = <<"ERROR_USB_WRITE">> /\ Issued("sync")
        /\ (FirstFailed \in {"mount", "chown"} /\ Issued("luksClose")) =>
               StatusLines = <<"ERROR_USB_MOUNT">>

\* number of times command c was issued
Count(c) == Cardinality({i \in 1..Len(cmds) : cmds[i] = c})

\* C13: in an export that issued at least one command, wherever it stopped,
\* each teardown command (umount, luksClose, rm) was issued exactly once when
\* the process has ended.
C13_TeardownExactlyOnce ==
    (Exited /\ IsExport /\ cmds # <<>>) =>
        \A c \in Teardown : Count(c) = 1

\* the value of the encryption_key argument of unlock_luks_volume
EncryptionKey == "<encryption_key>"

Range(s) == {s[i] : i \in 1..Len(s)}

\* Argv with the key passed to luksOpen as a last argument
Argv_keyarg(c) ==
    CASE c = "lsblk" ->
           <<"lsblk", "-o", "NAME,TYPE">>
      [] c = "lsblk_parts" ->
           <<"lsblk", "-o", "TYPE", "--noheadings", "<self.device>">>
      [] c = "isLuks" ->
           <<"sudo", "cryptsetup", "isLuks", "<self.device>">>
      [] c = "luksDump" ->
           <<"sudo", "cryptsetup", "luksDump", "<self.device>">>
      [] c = "luksOpen" ->
           <<"sudo", "cryptsetup", "luksOpen", "<self.device>",
           "<self.encrypted_device>", EncryptionKey>>
      [] c = "mkdir" ->
           <<"sudo", "mkdir", "<self.mountpoint>">>
      [] c = "mount" ->
           <<"sudo", "mount", "<mapped_device_path>", "<self.mountpoint>">>
      [] c = "chown" ->
           <<"sudo", "chown", "-R", "user:user", "<self.mountpoint>">>
      [] c = "mkdir_target" ->
           <<"mkdir", "<target_path>">>
      [] c = "cp" ->
           <<"cp", "-r", "<export_data>", "<target_path>">>
      [] c = "notify-send" ->
           <<"notify-send", "--expire-time", "3000", "--icon",
           "/usr/share/securedrop/icons/sd-logo.png", "<SecureDrop: msg>">>
      [] c = "sync" ->
           <<"sync">>
      [] c = "umount" ->
           <<"sudo", "umount", "<self.mountpoint>">>
      [] c = "luksClose" ->
           <<"sudo", "cryptsetup", "luksClose", "<self.encrypted_device>">>
      [] c = "rm" ->
           <<"rm", "-rf", "<tmpdir>">>

\* the argument list of each external command; an argument built from a
\* field or a parameter is written as the expression that builds it
Argv(c) ==
    CASE c = "lsblk" ->
           <<"lsblk", "-o", "NAME,TYPE">>
      [] c = "lsblk_parts" ->
           <<"lsblk", "-o", "TYPE", "--noheadings", "<self.device>">>
      [] c = "isLuks" ->
           <<"sudo", "cryptsetup", "isLuks", "<self.device>">>
      [] c = "luksDump" ->
           <<"sudo", "cryptsetup", "luksDump", "<self.device>">>
      [] c = "luksOpen" ->
           <<"sudo", "cryptsetup", "luksOpen", "<self.device>",
           "<self.encrypted_device>">>
      [] c = "mkdir" ->
           <<"sudo", "mkdir", "<self.mountpoint>">>
      [] c = "mount" ->
           <<"sudo", "mount", "<mapped_device_path>", "<self.mountpoint>">>
      [] c = "chown" ->
           <<"sudo", "chown", "-R", "user:user", "<self.mountpoint>">>
      [] c = "mkdir_target" ->
           <<"mkdir", "<target_path>">>
      [] c = "cp" ->
           <<"cp", "-r", "<export_data>", "<target_path>">>
      [] c = "notify-send" ->
           <<"notify-send", "--expire-time", "3000", "--icon",
           "/usr/share/securedrop/icons/sd-logo.png", "<SecureDrop: msg>">>
      [] c = "sync" ->
           <<"sync">>
      [] c = "umount" ->
           <<"sudo", "umount", "<self.mountpoint>">>
      [] c = "luksClose" ->
           <<"sudo", "cryptsetup", "luksClose", "<self.encrypted_device>">>
      [] c = "rm" ->
           <<"rm", "-rf", "<tmpdir>">>

\* what the process adds to the environment of command c: no Popen,
\* check_call or check_output call passes env=, and nothing writes os.environ
Env(c) == {}

\* what the process writes to the standard input of command c:
\* p.communicate(input=str.encode(encryption_key, "utf-8")) for luksOpen
Stdin(c) == IF c = "luksOpen" THEN <<EncryptionKey>> ELSE <<>>

\* C14: the passphrase is in the argument list and in the environment of no
\* command issued, and the only command that receives it on its standard
\* input is luksOpen, which does receive it.
C14_PassphraseOnStdinOnly ==
    \A i \in 1..Len(cmds) :
        /\ EncryptionKey \notin Range(Argv(cmds[i]))
        /\ EncryptionKey \notin Env(cmds[i])
        /\ EncryptionKey \in Range(Stdin(cmds[i])) <=> cmds[i] = "luksOpen"

C14_Witness ==
    /\ Exited
    /\ IsExport
    /\ Issued("luksOpen")
    /\ Issued("mount")
    /\ Issued("rm")

\* C15: no line of the error stream is the output of an external command.
C15_NoCommandOutputOnStderr ==
    \A i \in 1..Len(stderr) : stderr[i] # CommandOutput

\* C16 as stated: partition resolution keeps the disk path when lsblk prints
\* no "part" line, takes the disk's partition when it prints one, and when it
\* prints more than one it ends with INVALID_DEVICE_DETECTED, the device
\* path unchanged and no further command issued.
C16_InvalidDeviceDetected ==
    [][pc = "set_extracted_device_name" =>
         /\ obs'.parts = 0 => device' = device /\ pc' # "exited"
         /\ obs'.parts = 1 => device' = FirstPartition[device] /\ pc' # "exited"
         /\ obs'.parts > 1 =>
              /\ device' = device
              /\ pc' = "exited"
              /\ StatusLines' = <<"INVALID_DEVICE_DETECTED">>]_vars

\* C16: partition resolution keeps the disk path when lsblk prints no "part"
\* line, takes the disk's first partition (the path followed by 1) when it
\* prints one, and when it prints more than one it ends the invocation with
\* USB_ENCRYPTION_NOT_SUPPORTED, the device path unchanged and no further
\* command issued.
C16_PartitionResolution ==
    [][pc = "set_extracted_device_name" =>
         /\ obs'.parts = 0 => device' = device /\ pc' # "exited"
         /\ obs'.parts = 1 => device' = FirstPartition[device] /\ pc' # "exited"
         /\ obs'.parts > 1 =>
              /\ device' = device
              /\ pc' = "exited"
              /\ exitCode' = 0
              /\ StatusLines' = <<"USB_ENCRYPTION_NOT_SUPPORTED">>]_vars

C16_Witness ==
    /\ obs.parts > 1
    /\ Exited
    /\ cmds[Len(cmds)] = "lsblk_parts"
    /\ device \in {DevPath[n] : n \in DOMAIN DevPath}
    /\ stderr = <<"USB_ENCRYPTION_NOT_SUPPORTED">>

\* ------------------------------------------------- unlocking a second time
\* USBActionMixin.unlock_luks_volume called again on the object whose first
\* call returned, the device unchanged in between: every command answers as
\* the device makes it answer.  lsblk of a partition prints one "part" line,
\* lsblk of a disk without partitions prints none; luksDump succeeds on the
\* container the first call dumped and fails on any other path, with the same
\* UUID line as before.
unlock_luks_volume_again ==
    /\ pc = "mount_volume"
    /\ Count("luksDump") < MaxUnlocks
    /\ LET partition_count == IF obs.parts = 1 THEN 1 ELSE 0
           dev == IF partition_count = 0 THEN device ELSE FirstPartition[device]
           dumped == (dev = device)
       IN  /\ device' = dev
           /\ UNCHANGED encrypted_device
           /\ IF ~dumped
              THEN \E diag \in Diagnostics(FALSE) :
                   /\ cmds' = cmds \o <<"lsblk_parts", "luksDump">>
                   /\ obs' = [obs EXCEPT !.failed = TRUE,
                                         !.first = FirstFailure(TRUE)]
                   /\ LeaveAfter(diag,
                         exit_gracefully(Member("USB_ENCRYPTION_NOT_SUPPORTED"),
                                         "False"))
                   /\ UNCHANGED mapper
              ELSE IF encrypted_device \in mapper
              THEN /\ cmds' = cmds \o <<"lsblk_parts", "luksDump">>
                   /\ pc' = "mount_volume"
                   /\ UNCHANGED <<obs, mapper, stderr, exitCode, tmpdirExists,
                                  reportedAt, passed>>
              ELSE \E ok \in Outcomes(goodPass /\ mapper = {}) :
                   /\ cmds' = cmds \o <<"lsblk_parts", "luksDump", "luksOpen">>
                   /\ obs' = [obs EXCEPT !.failed = @ \/ ~ok,
                                         !.first = FirstFailure(~ok),
                                         !.opened = @ \/ ok]
                   /\ IF ok
                      THEN /\ mapper' = mapper \cup {encrypted_device}
                           /\ pc' = "mount_volume"
                           /\ UNCHANGED <<stderr, exitCode, tmpdirExists, reportedAt, passed>>
                      ELSE /\ Leave(exit_gracefully(
                                  Value(Member("USB_BAD_PASSPHRASE")), "False"))
                           /\ UNCHANGED mapper
    /\ UNCHANGED <<entry, export_method, mounted, mountpointExists, target,
                   pending, goodPass>>

NextUnlockTwice ==
    \/ Next
    \/ unlock_luks_volume_again

SpecUnlockTwice == Init /\ [][NextUnlockTwice]_vars

\* C17: a second unlock of the same device returns normally with the mapped
\* name of the first unlock, and leaves the open mappings as they were.
C17_SecondUnlockSameName ==
    [][unlock_luks_volume_again =>
         /\ pc' = "mount_volume"
         /\ encrypted_device' = encrypted_device
         /\ mapper' = mapper]_vars

\* the commands of copy_submission's finally block, in the order of the code
TeardownOrder == <<"sync", "umount", "luksClose", "rm">>

IsPrefix(s, t) == Len(s) <= Len(t) /\ \A i \in 1..Len(s) : s[i] = t[i]

\* the commands issued from the first sync on
SinceSync == SubSeq(cmds, FirstIssue("sync"), Len(cmds))

C19_TeardownBestEffort ==
    (Exited /\ Issued("sync")) =>
        \A i \in 1..Len(TeardownOrder) : Issued(TeardownOrder[i])

\* C20: when the first command to fail is one of mount_volume's (mkdir,
\* mount, chown), no luksClose is issued and the mapping stays open, and the
\* process ends with the single Status ERROR_USB_MOUNT and nothing mounted.
C20_MountFailureLeavesUnlocked ==
    FirstFailed \in {"mkdir", "mount", "chown"} =>
        /\ ~Issued("luksClose")
        /\ encrypted_device \in mapper
        /\ Exited => StatusLines = <<"ERROR_USB_MOUNT">> /\ ~mounted

\* the commands issued after the first failed command of the run
AfterFailure ==
    IF obs.first = 0 THEN <<>> ELSE SubSeq(cmds, obs.first + 1, Len(cmds))

\* C21: once a command of an export attempt has failed, every command issued
\* afterwards is a teardown command (sync, umount, luksClose, rm): no unlock
\* after a discovery or format failure, no mount after an unlock failure, no
\* write after a mount failure.
C21_OnlyTeardownAfterFailure ==
    /\ Range(AfterFailure) \subseteq Range(TeardownOrder)
    /\ (FirstFailed \in {"lsblk", "lsblk_parts", "isLuks", "luksDump"}
          => "luksOpen" \notin Range(AfterFailure))
    /\ (FirstFailed = "luksOpen" => "mount" \notin Range(AfterFailure))
    /\ (FirstFailed = "mount"
          => Range(AfterFailure) \cap {"mkdir_target", "cp"} = {})

\* C21: the mount command failed and the volume was closed before the exit
C21_Witness ==
    /\ Exited
    /\ FirstFailed = "mount"
    /\ AfterFailure = <<"luksClose">>
    /\ Len(StatusLines) = 1

\* the pipeline step a command belongs to: 1 discover, 2 resolve partition,
\* 3 probe/unlock, 4 mount, 5 write, 6 close
StepOf(c) ==
    CASE c = "lsblk" -> 1
      [] c = "lsblk_parts" -> 2
      [] c \in {"isLuks", "luksDump", "luksOpen"} -> 3
      [] c \in {"mkdir", "mount", "chown"} -> 4
      [] c \in {"mkdir_target", "cp", "notify-send"} -> 5
      [] c \in {"sync", "umount", "luksClose", "rm"} -> 6

\* C22: within one invocation the commands of the steps are issued in the
\* order discover, resolve partition, probe/unlock, mount, write, close; no
\* command is issued twice, no earlier step follows a later one, and a failed
\* unlock is not tried again.
C22_StepOrder ==
    /\ \A i, j \in 1..Len(cmds) : i < j => StepOf(cmds[i]) <= StepOf(cmds[j])
    /\ \A i, j \in 1..Len(cmds) : i < j => cmds[i] # cmds[j]
    /\ (obs.unlock = "fail" => Count("luksOpen") = 1)

\* C22: an export that went through unlock, mount, write and close
C22_Witness ==
    /\ Exited
    /\ cmds = <<"luksOpen", "mkdir", "mount", "chown", "mkdir_target", "cp",
                "sync", "umount", "luksClose", "rm">>

\* the mountpoint attribute of the device record: assigned at construction
\* and never reassigned
mountpoint == MOUNTPOINT

\* the attribute is set: it holds a value other than None
IsSet(attr) == attr # "None"

\* the device's encryption has been determined to be LUKS: cryptsetup isLuks
\* or luksDump returned zero for it
IsLuksDetermined == obs.probe = "ok"

\* C23: in every reachable state the mapped name of the device record is set
\* only if an unlock has succeeded, its mountpoint is set only if a mount has
\* succeeded and the mapped name is set, and no unlock or mount command is
\* issued for a device that has not been determined to be LUKS.
C23_DeviceRecord ==
    /\ IsSet(encrypted_device) => obs.opened
    /\ IsSet(mountpoint) => (mounted /\ IsSet(encrypted_device))
    /\ (Issued("luksOpen") \/ Issued("mount")) => IsLuksDetermined

\* an attempt on a device that an earlier attempt has exported to: both
\* instances were constructed at instants of the same clock, the later one
\* strictly after the earlier one
InitLater ==
    \E earlier \in Times, now \in Times :
        /\ earlier < now
        /\ InitAt(earlier, now)

SpecLaterAttempt == InitLater /\ [][Next]_vars

\* C24: a later attempt uses a target directory name different from the one
\* of an earlier attempt on the same device, so the target directory does not
\* exist when the write step starts.
C24_FreshTargetDirectory ==
    pc = "copy_mkdir" =>
        /\ target_dirname(obs.earlier) # target_dirname(obs.now)
        /\ target = "absent"

\* the positions of a listing whose removable attribute was read and is
\* non-zero
ReadsNonZero(listing) ==
    {i \in 1..Len(listing) : listing[i] # CatFailed /\ listing[i] # 0}

\* the k-th smallest element of a set of positions
Nth(S, k) == CHOOSE i \in S : Cardinality({j \in S : j < i}) = k - 1

\* discovery has returned its sequence of devices
Discovered == obs.usb # -1

C26_OnlyStatusValuesReported ==
    \A i \in 1..Len(passed) :
        /\ passed[i].kind = "str"
        /\ passed[i].name \in ExportStatus

\* the export ended CLOSED with success: every command returned zero and the
\* teardown has locked the volume and removed the temporary directory
ClosedWithSuccess ==
    /\ Exited
    /\ exitCode = 0
    /\ ~obs.failed
    /\ Issued("cp")
    /\ mapper = {}
    /\ ~mounted

\* the export ended FAILED with a Status
FailedWithStatus ==
    /\ Exited
    /\ Len(StatusLines) = 1

\* C27: an export invocation never stops short of a terminal state: while
\* it has not exited a further step is enabled, and once it has exited it is
\* CLOSED with success or FAILED with a Status.
C27_ReachesTerminalState ==
    IsExport =>
        /\ (Exited \/ ENABLED Next)
        /\ (Exited => (ClosedWithSuccess \/ FailedWithStatus))

\* __main__ ended before the dispatch: the archive could not be extracted or
\* its metadata could not be parsed
EndedBeforeDispatch ==
    StatusLines \in {<<"ERROR_EXTRACTION">>, <<"ERROR_METADATA_PARSING">>}

\* C28: when __main__ has exited on an archive whose metadata is_valid
\* accepts, an action was run for the export method and exactly one Status
\* was reported; on an archive whose metadata is_valid rejects, the Status
\* ERROR_ARCHIVE_METADATA was reported and no command was issued.
C28_EveryMethodDispatched ==
    (entry = "main" /\ Exited /\ ~EndedBeforeDispatch) =>
        IF export_method \in SUPPORTED_EXPORT_METHODS
        THEN /\ exitCode = 0
             /\ Len(StatusLines) = 1
        ELSE /\ StatusLines = <<"ERROR_ARCHIVE_METADATA">>
             /\ cmds = <<>>

\* ------------------------------------------------ PrintActionMixin.wait_for_print

PRINTER_WAIT_TIMEOUT == 60

\* time.sleep(5)
SleepSeconds == 5

\* handler raising TimeoutException where no except clause encloses it
UncaughtTimeout == [out |-> <<>>, rm |-> FALSE, exc |-> "TimeoutException"]

\* a blocking call entered at obs.clock seconds after signal.alarm and taking
\* d seconds: whether SIGALRM can interrupt it, and whether it can return
\* before SIGALRM is delivered
AlarmInterrupts(d) == obs.clock + d >= PRINTER_WAIT_TIMEOUT
ReturnsFirst(d) == obs.clock + d <= PRINTER_WAIT_TIMEOUT

\* the state in which wait_for_print is called on a constructed print action
InitPrint ==
    /\ entry = "wait_for_print"
    /\ export_method \in {"printer", "printer-test"}
    /\ pc = "wait_for_print"
    /\ device = DEVICE
    /\ encrypted_device = ENCRYPTED_DEVICE
    /\ mapper = {}
    /\ mounted = FALSE
    /\ mountpointExists \in BOOLEAN
    /\ tmpdirExists = TRUE
    /\ target = "absent"
    /\ stderr = <<>>
    /\ exitCode = -1
    /\ pending = "none"
    /\ cmds = <<>>
    /\ goodPass \in BOOLEAN
    /\ reportedAt = -1
    /\ passed = <<>>
    /\ obs = [usb |-> -1, listed |-> TRUE, parts |-> -1, probe |-> "none",
              unlock |-> "none", failed |-> FALSE, opened |-> FALSE,
              first |-> 0, listing |-> <<>>, found |-> <<>>,
              earlier |-> -1, now |-> 0, clock |-> 0, idle |-> FALSE]

\* signal.signal(signal.SIGALRM, handler); signal.alarm(printer_wait_timeout)
wait_for_print_alarm ==
    /\ pc = "wait_for_print"
    /\ pc' = "wait_for_print_lpstat"
    /\ obs' = [obs EXCEPT !.clock = 0]
    /\ UNCHANGED <<entry, export_method, device, encrypted_device, mapper,
                   mounted, mountpointExists, tmpdirExists, target, stderr,
                   exitCode, pending, cmds, goodPass, reportedAt, passed>>

\* the try block up to the branch on the output of lpstat -p <printer>; the
\* call returns non-zero, or prints a line that holds the idle string or not
wait_for_print_lpstat ==
    /\ pc = "wait_for_print_lpstat"
    /\ cmds' = Append(cmds, "lpstat")
    /\ \E d \in 0..MaxLpstat :
         \/ /\ AlarmInterrupts(d)
            /\ obs' = [obs EXCEPT !.clock = PRINTER_WAIT_TIMEOUT]
            /\ Leave(exit_gracefully(Value(Member("ERROR_PRINT")), "False"))
         \/ /\ ReturnsFirst(d)
            /\ \E output \in {"idle", "busy", "failed"} :
                 /\ obs' = [obs EXCEPT !.clock = @ + d,
                                       !.idle = (output = "idle"),
                                       !.failed = @ \/ output = "failed",
                                       !.first = FirstFailure(output = "failed")]
                 /\ IF output = "failed"
                    THEN \E diag \in Diagnostics(FALSE) :
                           LeaveAfter(diag,
                               exit_gracefully(Value(Member("ERROR_PRINT")),
                                               "False"))
                    ELSE /\ pc' = IF output = "idle" THEN "returned"
                                  ELSE "wait_for_print_sleep"
                         /\ UNCHANGED <<stderr, exitCode, tmpdirExists,
                                        reportedAt, passed>>
    /\ UNCHANGED <<entry, export_method, device, encrypted_device, mapper,
                   mounted, mountpointExists, target, pending, goodPass>>

\* time.sleep(5), the last statement of the try block
wait_for_print_sleep ==
    /\ pc = "wait_for_print_sleep"
    /\ UNCHANGED cmds
    /\ \/ /\ AlarmInterrupts(SleepSeconds)
          /\ obs' = [obs EXCEPT !.clock = PRINTER_WAIT_TIMEOUT]
          /\ Leave(exit_gracefully(Value(Member("ERROR_PRINT")), "False"))
       \/ /\ ReturnsFirst(SleepSeconds)
          /\ obs' = [obs EXCEPT !.clock = @ + SleepSeconds]
          /\ pc' = "wait_for_print_while"
          /\ UNCHANGED <<stderr, exitCode, tmpdirExists, reportedAt, passed>>
    /\ UNCHANGED <<entry, export_method, device, encrypted_device, mapper,
                   mounted, mountpointExists, target, pending, goodPass>>

\* the jump back to `while True`, after the try statement has been left: a
\* SIGALRM due by now runs the handler here, outside every except clause
wait_for_print_while ==
    /\ pc = "wait_for_print_while"
    /\ UNCHANGED <<cmds, obs>>
    /\ IF AlarmInterrupts(0)
       THEN Leave(UncaughtTimeout)
       ELSE /\ pc' = "wait_for_print_lpstat"
            /\ UNCHANGED <<stderr, exitCode, tmpdirExists, reportedAt, passed>>
    /\ UNCHANGED <<entry, export_method, device, encrypted_device, mapper,
                   mounted, mountpointExists, target, pending, goodPass>>

NextPrint ==
    \/ wait_for_print_alarm
    \/ wait_for_print_lpstat
    \/ wait_for_print_sleep
    \/ wait_for_print_while

SpecPrint == InitPrint /\ [][NextPrint]_vars

\* wait_for_print has returned True
Returned_True == pc = "returned"

\* C29: the wait for print completion is bounded and ends in one of two ways:
\* lpstat is run at most once per sleep interval of the timeout, the wait
\* goes on while it has neither returned nor exited, it returns True only
\* after lpstat reported the printer idle, and when it ends the process
\* instead, the Status ERROR_PRINT has been reported.
C29_WaitForPrintBounded ==
    /\ Count("lpstat") <= PRINTER_WAIT_TIMEOUT \div SleepSeconds + 1
    /\ obs.clock <= PRINTER_WAIT_TIMEOUT
    /\ (Returned_True \/ Exited \/ ENABLED NextPrint)
    /\ (Returned_True => obs.idle)
    /\ (Exited => exitCode = 0 /\ StatusLines = <<"ERROR_PRINT">>)

====
